---- MODULE Spec2Model ----
(***************************************************************************)
(* Model of server/app.py: a Flask application with four SQLAlchemy tables *)
(* (User, Event, Registration, Payment) over SQLite and seven JSON         *)
(* endpoints.                                                              *)
(*                                                                         *)
(* A JSON value of a request body is a record [kind, str, num]; a key that *)
(* the body does not hold has kind "absent".  The `date` value is parsed   *)
(* character by character, so it is a record [kind, chars].  Text columns  *)
(* only receive JSON strings or null and numeric columns only JSON numbers *)
(* or null (SQLite's type affinity conversions are outside the model), and *)
(* SQLite's foreign keys are not enforced (its default).                   *)
(***************************************************************************)
EXTENDS Integers, Sequences, FiniteSets, TLC

VARIABLES users, events, registrations, payments, request, response,
          thread, registered

tables == <<users, events, registrations, payments>>
vars == <<users, events, registrations, payments, request, response,
          thread, registered>>

\* Bound of the model: the rows the database holds, all tables together.
MaxRows == 3

\* The request threads of the concurrent specification.
Threads == {"t1", "t2"}

----------------------------------------------------------------------------
\* JSON values and Python's view of them

Absent == [kind |-> "absent", str |-> "", num |-> 0]
Null == [kind |-> "null", str |-> "", num |-> 0]
Str(s) == [kind |-> "str", str |-> s, num |-> 0]
Num(n) == [kind |-> "num", str |-> "", num |-> n]

\* the `date` value: a JSON string as its characters
DAbsent == [kind |-> "absent", chars |-> <<>>]
DNull == [kind |-> "null", chars |-> <<>>]
DStr(cs) == [kind |-> "str", chars |-> cs]

\* `v is not None` in place of bool(v): "" and 0 pass
TruthyNotNone(v) == v.kind \in {"str", "num"}

\* bool(v): None, "" and 0 are falsy
Truthy(v) == \/ v.kind = "str" /\ v.str # ""
             \/ v.kind = "num" /\ v.num # 0

TruthyChars(v) == v.kind = "str" /\ Len(v.chars) > 0

\* data.get(key): None for a key the body does not hold
Get(data, key) == IF data[key].kind = "absent" THEN Null ELSE data[key]

\* data.get(key, default)
GetDefault(data, key, default) ==
    IF data[key].kind = "absent" THEN default ELSE data[key]

\* data.get('date')
GetChars(data, key) == IF data[key].kind = "absent" THEN DNull ELSE data[key]

\* A Column(default=d): the ORM leaves an attribute that is None out of the
\* INSERT, and the column's default fills it.
ColumnDefault(v, d) == IF v.kind = "null" THEN d ELSE v

----------------------------------------------------------------------------
\* datetime.fromisoformat and datetime.isoformat

DigitChars == <<"0", "1", "2", "3", "4", "5", "6", "7", "8", "9">>
IsDigit(c) == \E d \in 1..10 : DigitChars[d] = c
DigitVal(c) == (CHOOSE d \in 1..10 : DigitChars[d] = c) - 1
DigitChar(d) == DigitChars[d + 1]

AllDigits(s, idx) == \A i \in idx : IsDigit(s[i])
Num2(s, i) == DigitVal(s[i]) * 10 + DigitVal(s[i + 1])
Num4(s, i) == Num2(s, i) * 100 + Num2(s, i + 2)

IsLeap(y) == (y % 4 = 0) /\ ((y % 100 # 0) \/ (y % 400 = 0))
DaysInMonth(y, m) ==
    IF m = 2 THEN (IF IsLeap(y) THEN 29 ELSE 28)
    ELSE IF m \in {4, 6, 9, 11} THEN 30 ELSE 31

NoDate == [kind |-> "null", year |-> 0, month |-> 0, day |-> 0,
           hour |-> 0, minute |-> 0, second |-> 0]
DateTime(y, mo, d, h, mi, s) ==
    [kind |-> "datetime", year |-> y, month |-> mo, day |-> d,
     hour |-> h, minute |-> mi, second |-> s]

\* fromisoformat without the range check of the datetime constructor
fromisoformatNoRange(s) ==
    LET n == Len(s)
        form == /\ n \in {10, 13, 16, 19}
                /\ AllDigits(s, {1, 2, 3, 4, 6, 7, 9, 10})
                /\ s[5] = "-" /\ s[8] = "-"
                /\ n >= 13 => AllDigits(s, {12, 13})
                /\ n >= 16 => AllDigits(s, {15, 16}) /\ s[14] = ":"
                /\ n >= 19 => AllDigits(s, {18, 19}) /\ s[17] = ":"
    IN  IF ~form THEN [ok |-> FALSE, value |-> NoDate]
        ELSE [ok |-> TRUE,
              value |-> DateTime(Num4(s, 1), Num2(s, 6), Num2(s, 9),
                                 IF n >= 13 THEN Num2(s, 12) ELSE 0,
                                 IF n >= 16 THEN Num2(s, 15) ELSE 0,
                                 IF n >= 19 THEN Num2(s, 18) ELSE 0)]

\* The forms YYYY-MM-DD, and YYYY-MM-DD?HH, ?HH:MM and ?HH:MM:SS after any
\* one separator character; every other string of the model's inputs raises
\* ValueError (ok = FALSE), as do fields out of range.
fromisoformat(s) ==
    LET n == Len(s)
        dateForm == /\ n >= 10
                    /\ AllDigits(s, {1, 2, 3, 4, 6, 7, 9, 10})
                    /\ s[5] = "-" /\ s[8] = "-"
        timeForm == \/ n = 10
                    \/ n = 13 /\ AllDigits(s, {12, 13})
                    \/ n = 16 /\ AllDigits(s, {12, 13, 15, 16}) /\ s[14] = ":"
                    \/ /\ n = 19 /\ AllDigits(s, {12, 13, 15, 16, 18, 19})
                       /\ s[14] = ":" /\ s[17] = ":"
    IN  IF ~(dateForm /\ timeForm) THEN [ok |-> FALSE, value |-> NoDate]
        ELSE LET y == Num4(s, 1)
                 mo == Num2(s, 6)
                 d == Num2(s, 9)
                 h == IF n >= 13 THEN Num2(s, 12) ELSE 0
                 mi == IF n >= 16 THEN Num2(s, 15) ELSE 0
                 sec == IF n >= 19 THEN Num2(s, 18) ELSE 0
                 inRange == /\ y >= 1 /\ mo \in 1..12
                            /\ d >= 1 /\ d <= DaysInMonth(y, mo)
                            /\ h <= 23 /\ mi <= 59 /\ sec <= 59
             IN  IF inRange THEN [ok |-> TRUE, value |-> DateTime(y, mo, d, h, mi, sec)]
                 ELSE [ok |-> FALSE, value |-> NoDate]

Pad2(n) == <<DigitChar(n \div 10), DigitChar(n % 10)>>
Pad4(n) == Pad2(n \div 100) \o Pad2(n % 100)

\* dt.isoformat(): YYYY-MM-DDTHH:MM:SS
isoformat(dt) ==
    Pad4(dt.year) \o <<"-">> \o Pad2(dt.month) \o <<"-">> \o Pad2(dt.day)
    \o <<"T">> \o Pad2(dt.hour) \o <<":">> \o Pad2(dt.minute)
    \o <<":">> \o Pad2(dt.second)

\* event.date.isoformat() if event.date else None
DateJson(dt) == IF dt.kind = "null" THEN DNull ELSE DStr(isoformat(dt))

----------------------------------------------------------------------------
\* The tables: db.Model classes as SQLite creates them.  A table is the
\* sequence of its rows in rowid order; rows are never deleted, so the next
\* INTEGER PRIMARY KEY is the row count plus one.

NextId(table) == Len(table) + 1

Rows == Len(users) + Len(events) + Len(registrations) + Len(payments)

\* An INSERT either extends the table or raises IntegrityError.
Inserted(table, row) == [ok |-> TRUE, table |-> Append(table, row)]
IntegrityError(table) == [ok |-> FALSE, table |-> table]

\* class User without unique=True on username
UserInsertNoUnique(table, new_user) ==
    IF \/ new_user.username.kind = "null"
       \/ new_user.password.kind = "null"
    THEN IntegrityError(table)
    ELSE Inserted(table, [id |-> NextId(table),
                          username |-> new_user.username,
                          password |-> new_user.password,
                          role |-> ColumnDefault(new_user.role, Str("user"))])

\* class User without default='user' on role
UserInsertNoRoleDefault(table, new_user) ==
    IF \/ new_user.username.kind = "null"
       \/ new_user.password.kind = "null"
       \/ \E i \in 1..Len(table) : table[i].username = new_user.username
    THEN IntegrityError(table)
    ELSE Inserted(table, [id |-> NextId(table),
                          username |-> new_user.username,
                          password |-> new_user.password,
                          role |-> new_user.role])

\* class User: username unique and NOT NULL, password NOT NULL, role 'user'
UserInsert(table, new_user) ==
    IF \/ new_user.username.kind = "null"
       \/ new_user.password.kind = "null"
       \/ \E i \in 1..Len(table) : table[i].username = new_user.username
    THEN IntegrityError(table)
    ELSE Inserted(table, [id |-> NextId(table),
                          username |-> new_user.username,
                          password |-> new_user.password,
                          role |-> ColumnDefault(new_user.role, Str("user"))])

\* class Event without nullable=False on title and organizer_id
EventInsertNullable(table, new_event) ==
    Inserted(table, [id |-> NextId(table),
                     title |-> new_event.title,
                     description |-> new_event.description,
                     date |-> new_event.date,
                     location |-> new_event.location,
                     price |-> ColumnDefault(new_event.price, Num(0)),
                     organizer_id |-> new_event.organizer_id])

\* class Event: title and organizer_id NOT NULL, price 0.0
EventInsert(table, new_event) ==
    IF \/ new_event.title.kind = "null"
       \/ new_event.organizer_id.kind = "null"
    THEN IntegrityError(table)
    ELSE Inserted(table, [id |-> NextId(table),
                          title |-> new_event.title,
                          description |-> new_event.description,
                          date |-> new_event.date,
                          location |-> new_event.location,
                          price |-> ColumnDefault(new_event.price, Num(0)),
                          organizer_id |-> new_event.organizer_id])

\* class Registration with a unique constraint on (attendee_id, event_id)
RegistrationInsertUniquePair(table, new_reg) ==
    IF \/ new_reg.attendee_id.kind = "null"
       \/ new_reg.event_id.kind = "null"
       \/ \E i \in 1..Len(table) :
            /\ table[i].attendee_id = new_reg.attendee_id
            /\ table[i].event_id = new_reg.event_id
    THEN IntegrityError(table)
    ELSE Inserted(table, [id |-> NextId(table),
                          attendee_id |-> new_reg.attendee_id,
                          event_id |-> new_reg.event_id,
                          registration_type |-> new_reg.registration_type])

\* class Registration: attendee_id and event_id NOT NULL
RegistrationInsert(table, new_reg) ==
    IF \/ new_reg.attendee_id.kind = "null"
       \/ new_reg.event_id.kind = "null"
    THEN IntegrityError(table)
    ELSE Inserted(table, [id |-> NextId(table),
                          attendee_id |-> new_reg.attendee_id,
                          event_id |-> new_reg.event_id,
                          registration_type |-> new_reg.registration_type])

\* class Payment storing the status of the column's default whatever the
\* handler passes
PaymentInsertDefaultStatus(table, new_payment, utcnow) ==
    IF \/ new_payment.user_id.kind = "null"
       \/ new_payment.event_id.kind = "null"
       \/ new_payment.amount.kind = "null"
    THEN IntegrityError(table)
    ELSE Inserted(table, [id |-> NextId(table),
                          user_id |-> new_payment.user_id,
                          event_id |-> new_payment.event_id,
                          amount |-> new_payment.amount,
                          payment_method |-> new_payment.payment_method,
                          status |-> Str("pending"),
                          timestamp |-> utcnow])

\* class Payment: user_id, event_id and amount NOT NULL, status 'pending',
\* timestamp datetime.utcnow (the clock's reading, utcnow)
PaymentInsert(table, new_payment, utcnow) ==
    IF \/ new_payment.user_id.kind = "null"
       \/ new_payment.event_id.kind = "null"
       \/ new_payment.amount.kind = "null"
    THEN IntegrityError(table)
    ELSE Inserted(table, [id |-> NextId(table),
                          user_id |-> new_payment.user_id,
                          event_id |-> new_payment.event_id,
                          amount |-> new_payment.amount,
                          payment_method |-> new_payment.payment_method,
                          status |-> ColumnDefault(new_payment.status, Str("pending")),
                          timestamp |-> utcnow])

----------------------------------------------------------------------------
\* Requests and responses

NoRequest == [route |-> "none", data |-> [none |-> Null]]
NoResponse == [status |-> 0, body |-> [none |-> Null]]

\* jsonify(body), and jsonify(body), status
Json(status, body) == [status |-> status, body |-> body]
JsonError(status, error) == [status |-> status, body |-> [error |-> error]]
\* an exception no handler catches
ServerError(exception) == [status |-> 500, body |-> [exception |-> exception]]
\* get_or_404
NotFound == [status |-> 404, body |-> [aborted |-> "Not Found"]]

Usernames == {"alice", "bob"}
Passwords == {"secret", "other"}

RegisterRequests ==
    {[route |-> "register_user",
      data |-> [username |-> u, password |-> p, role |-> r]] :
        u \in {Absent} \cup {Str(n) : n \in Usernames},
        p \in {Str("")} \cup {Str(n) : n \in Passwords},
        r \in {Absent, Null, Str("organizer")}}

LoginRequests ==
    {[route |-> "login_user", data |-> [username |-> u, password |-> p]] :
        u \in {Absent} \cup {Str(n) : n \in Usernames},
        p \in {Str("")} \cup {Str(n) : n \in Passwords}}

GetEventsRequests == {[route |-> "get_events", data |-> [none |-> Null]]}

\* <int:event_id>
GetEventRequests ==
    {[route |-> "get_event", data |-> [event_id |-> n]] : n \in 0..MaxRows}

DateStrings ==
    {<<>>,
     <<"2", "0", "2", "4", "-", "0", "5", "-", "0", "1">>,
     <<"2", "0", "2", "4", "-", "0", "5", "-", "0", "1", "T",
       "1", "0", ":", "3", "0", ":", "0", "0">>,
     <<"n", "o", "t", "-", "a", "-", "d", "a", "t", "e">>,
     <<"2", "0", "2", "3", "-", "0", "2", "-", "2", "9">>}

CreateEventRequests ==
    {[route |-> "create_event",
      data |-> [title |-> t, description |-> Str("Talks"), date |-> d,
                location |-> l, price |-> p, organizer_id |-> o]] :
        t \in {Absent, Str("Conf")},
        d \in {DAbsent} \cup {DStr(cs) : cs \in DateStrings},
        l \in {Absent},
        p \in {Absent, Num(10)},
        o \in {Absent, Num(1)}}

RegisterToEventRequests ==
    {[route |-> "register_to_event",
      data |-> [attendee_id |-> a, event_id |-> e, registration_type |-> t]] :
        a \in {Absent, Num(0), Num(1)},
        e \in {Absent, Num(1)},
        t \in {Absent, Null, Str("VIP")}}

ProcessPaymentRequests ==
    {[route |-> "process_payment",
      data |-> [user_id |-> u, event_id |-> e, amount |-> a,
                payment_method |-> m]] :
        u \in {Num(0), Num(1)},
        e \in {Absent, Num(1)},
        a \in {Absent, Num(0), Num(10)},
        m \in {Absent, Str(""), Str("card")}}

Requests ==
    RegisterRequests \cup LoginRequests \cup GetEventsRequests
    \cup GetEventRequests \cup CreateEventRequests
    \cup RegisterToEventRequests \cup ProcessPaymentRequests

\* the readings of the clock
Clock == {"t0", "t1"}

----------------------------------------------------------------------------
\* The handlers, one request at a time

\* filter_by(password=username): the lookup on the wrong column
UsernameExistsWrongColumn(table, username) ==
    \E i \in 1..Len(table) : table[i].password = username

\* User.query.filter_by(username=username).first()
UsernameExists(table, username) ==
    \E i \in 1..Len(table) : table[i].username = username

\* filter_by(username=username): the password not compared
UserMatchesUsernameOnly(table, username, password) ==
    {i \in 1..Len(table) : table[i].username = username}

\* User.query.filter_by(username=username, password=password).first():
\* the indexes of the matching rows
UserMatches(table, username, password) ==
    {i \in 1..Len(table) :
        table[i].username = username /\ table[i].password = password}

First(S) == CHOOSE i \in S : \A j \in S : i <= j

Count(username) == IF username.kind = "str" /\ username.str \in Usernames
                   THEN [registered EXCEPT ![username.str] = @ + 1]
                   ELSE registered

\* a client sends a request and Flask routes it to its handler
Send ==
    /\ request = NoRequest
    /\ response = NoResponse
    /\ request' \in Requests
    /\ UNCHANGED <<users, events, registrations, payments, response,
                   thread, registered>>

\* the response goes back to the client
Reply ==
    /\ response # NoResponse
    /\ request' = NoRequest
    /\ response' = NoResponse
    /\ UNCHANGED <<users, events, registrations, payments, thread, registered>>

Handling(route) == request.route = route /\ response = NoResponse

RegisterUser ==
    /\ Handling("register_user")
    /\ LET data == request.data
           username == Get(data, "username")
           password == Get(data, "password")
           role == GetDefault(data, "role", Str("user"))
           new_user == [username |-> username, password |-> password,
                        role |-> role]
           commit == UserInsert(users, new_user)
       IN  IF ~Truthy(username) \/ ~Truthy(password)
           THEN /\ response' = JsonError(400, "Missing username or password")
                /\ UNCHANGED <<users, registered>>
           ELSE IF UsernameExists(users, username)
           THEN /\ response' = JsonError(400, "Username already exists")
                /\ UNCHANGED <<users, registered>>
           ELSE /\ Rows < MaxRows
                /\ IF commit.ok
                   THEN /\ users' = commit.table
                        /\ response' = Json(200, [message |-> "User registered successfully"])
                        /\ registered' = Count(username)
                   ELSE /\ response' = ServerError("IntegrityError")
                        /\ UNCHANGED <<users, registered>>
    /\ UNCHANGED <<events, registrations, payments, request, thread>>

LoginUser ==
    /\ Handling("login_user")
    /\ LET data == request.data
           username == Get(data, "username")
           password == Get(data, "password")
           found == UserMatches(users, username, password)
       IN  IF found # {}
           THEN LET user == users[First(found)]
                IN  response' = Json(200, [message |-> "Login successful",
                                           user |-> [id |-> user.id,
                                                     username |-> user.username,
                                                     role |-> user.role]])
           ELSE response' = JsonError(400, "Invalid credentials")
    /\ UNCHANGED <<users, events, registrations, payments, request,
                   thread, registered>>

\* the event_list entry, and event_detail
EventJson(event) ==
    [id |-> event.id, title |-> event.title,
     description |-> event.description, date |-> DateJson(event.date),
     location |-> event.location, price |-> event.price,
     organizer_id |-> event.organizer_id]

GetEvents ==
    /\ Handling("get_events")
    /\ response' = Json(200, [list |-> [i \in 1..Len(events) |-> EventJson(events[i])]])
    /\ UNCHANGED <<users, events, registrations, payments, request,
                   thread, registered>>

\* Event.query.first_or_404(): the id not used
GetEventFirst ==
    /\ Handling("get_event")
    /\ IF Len(events) = 0 THEN response' = NotFound
       ELSE response' = Json(200, EventJson(events[1]))
    /\ UNCHANGED <<users, events, registrations, payments, request,
                   thread, registered>>

\* Event.query.get_or_404(event_id)
GetEvent ==
    /\ Handling("get_event")
    /\ LET event_id == request.data.event_id
           found == {i \in 1..Len(events) : events[i].id = event_id}
       IN  IF found = {} THEN response' = NotFound
           ELSE response' = Json(200, EventJson(events[First(found)]))
    /\ UNCHANGED <<users, events, registrations, payments, request,
                   thread, registered>>

CreateEvent ==
    /\ Handling("create_event")
    /\ LET data == request.data
           title == Get(data, "title")
           description == Get(data, "description")
           date_str == GetChars(data, "date")
           location == Get(data, "location")
           price == GetDefault(data, "price", Num(0))
           organizer_id == Get(data, "organizer_id")
           parsed == IF TruthyChars(date_str) THEN fromisoformat(date_str.chars)
                     ELSE [ok |-> TRUE, value |-> NoDate]
           new_event == [title |-> title, description |-> description,
                         date |-> parsed.value, location |-> location,
                         price |-> price, organizer_id |-> organizer_id]
           commit == EventInsert(events, new_event)
       IN  IF ~parsed.ok
           THEN /\ response' = JsonError(400, "Invalid date format")
                /\ UNCHANGED events
           ELSE IF commit.ok
           THEN /\ Rows < MaxRows
                /\ events' = commit.table
                /\ response' = Json(200, [message |-> "Event created successfully"])
           ELSE /\ response' = ServerError("IntegrityError")
                /\ UNCHANGED events
    /\ UNCHANGED <<users, registrations, payments, request, thread, registered>>

RegisterToEvent ==
    /\ Handling("register_to_event")
    /\ LET data == request.data
           attendee_id == Get(data, "attendee_id")
           event_id == Get(data, "event_id")
           registration_type == GetDefault(data, "registration_type", Str("general"))
           new_reg == [attendee_id |-> attendee_id, event_id |-> event_id,
                       registration_type |-> registration_type]
           commit == RegistrationInsert(registrations, new_reg)
       IN  IF ~Truthy(attendee_id) \/ ~Truthy(event_id)
           THEN /\ response' = JsonError(400, "Missing attendee_id or event_id")
                /\ UNCHANGED registrations
           ELSE IF commit.ok
           THEN /\ Rows < MaxRows
                /\ registrations' = commit.table
                /\ response' = Json(200, [message |-> "Registration successful"])
           ELSE /\ response' = ServerError("IntegrityError")
                /\ UNCHANGED registrations
    /\ UNCHANGED <<users, events, payments, request, thread, registered>>

ProcessPayment ==
    /\ Handling("process_payment")
    /\ LET data == request.data
           user_id == Get(data, "user_id")
           event_id == Get(data, "event_id")
           amount == Get(data, "amount")
           payment_method == Get(data, "payment_method")
           new_payment == [user_id |-> user_id, event_id |-> event_id,
                           amount |-> amount,
                           payment_method |-> payment_method,
                           status |-> Str("successful")]
       IN  IF ~(Truthy(user_id) /\ Truthy(event_id) /\ Truthy(amount)
                /\ Truthy(payment_method))
           THEN /\ response' = JsonError(400, "Missing payment details")
                /\ UNCHANGED payments
           ELSE \E utcnow \in Clock :
                LET commit == PaymentInsert(payments, new_payment, utcnow)
                IN  IF commit.ok
                    THEN /\ Rows < MaxRows
                         /\ payments' = commit.table
                         /\ response' =
                              Json(200, [message |-> "Payment processed successfully",
                                         paymentStatus |-> commit.table[Len(commit.table)].status])
                    ELSE /\ response' = ServerError("IntegrityError")
                         /\ UNCHANGED payments
    /\ UNCHANGED <<users, events, registrations, request, thread, registered>>

----------------------------------------------------------------------------
\* register_user on concurrent threads: the existence check (the SELECT) and
\* the commit (the INSERT) are separate steps of a thread, each with its own
\* session.

Idle == [pc |-> "idle", new_user |-> [username |-> Null, password |-> Null, role |-> Null],
         response |-> NoResponse]

\* lines 63-74: the body is read, validated, and the username looked up
RegisterCheck(t) ==
    /\ thread[t].pc = "idle"
    /\ \E r \in RegisterRequests :
         LET data == r.data
             username == Get(data, "username")
             password == Get(data, "password")
             role == GetDefault(data, "role", Str("user"))
             new_user == [username |-> username, password |-> password,
                          role |-> role]
         IN  IF ~Truthy(username) \/ ~Truthy(password)
             THEN thread' = [thread EXCEPT ![t] =
                     [Idle EXCEPT !.pc = "done",
                                  !.response = JsonError(400, "Missing username or password")]]
             ELSE IF UsernameExists(users, username)
             THEN thread' = [thread EXCEPT ![t] =
                     [Idle EXCEPT !.pc = "done",
                                  !.response = JsonError(400, "Username already exists")]]
             ELSE thread' = [thread EXCEPT ![t] =
                     [Idle EXCEPT !.pc = "commit", !.new_user = new_user]]
    /\ UNCHANGED <<users, events, registrations, payments, request, response,
                   registered>>

\* lines 75-77: db.session.add(new_user); db.session.commit(); return
RegisterCommit(t) ==
    /\ thread[t].pc = "commit"
    /\ Rows < MaxRows
    /\ LET commit == UserInsert(users, thread[t].new_user)
       IN  IF commit.ok
           THEN /\ users' = commit.table
                /\ registered' = Count(thread[t].new_user.username)
                /\ thread' = [thread EXCEPT ![t] =
                     [Idle EXCEPT !.pc = "done",
                                  !.response = Json(200, [message |-> "User registered successfully"])]]
           ELSE /\ thread' = [thread EXCEPT ![t] =
                     [Idle EXCEPT !.pc = "done",
                                  !.response = ServerError("IntegrityError")]]
                /\ UNCHANGED <<users, registered>>
    /\ UNCHANGED <<events, registrations, payments, request, response>>

\* the thread's response goes back to its client
ThreadReply(t) ==
    /\ thread[t].pc = "done"
    /\ thread' = [thread EXCEPT ![t] = Idle]
    /\ UNCHANGED <<users, events, registrations, payments, request, response,
                   registered>>

----------------------------------------------------------------------------
\* The specifications

\* db.create_all(): empty tables
Init ==
    /\ users = <<>>
    /\ events = <<>>
    /\ registrations = <<>>
    /\ payments = <<>>
    /\ request = NoRequest
    /\ response = NoResponse
    /\ thread = [t \in Threads |-> Idle]
    /\ registered = [u \in Usernames |-> 0]

Next ==
    \/ Send
    \/ RegisterUser
    \/ LoginUser
    \/ GetEvents
    \/ GetEvent
    \/ CreateEvent
    \/ RegisterToEvent
    \/ ProcessPayment
    \/ Reply

\* requests handled one at a time
Spec == Init /\ [][Next]_vars

NextConcurrent ==
    \E t \in Threads : RegisterCheck(t) \/ RegisterCommit(t) \/ ThreadReply(t)

\* register_user requests handled on concurrent threads
SpecConcurrent == Init /\ [][NextConcurrent]_vars

----------------------------------------------------------------------------
\* Properties

\* the step in which the handler of `route` answers its request
Handled(route) ==
    /\ request.route = route
    /\ response = NoResponse
    /\ response' # NoResponse

\* a value a request supplies: a non-empty string
Given(v) == v.kind = "str" /\ v.str # ""

\* a value that is missing or falsy: no key, null, "" or 0
Missing(v) == v \in {Absent, Null, Str(""), Num(0)}

\* every row of `old` is a row of `new`, at its place and unchanged
KeptRows(old, new) ==
    \A i \in 1..Len(old) : i <= Len(new) /\ new[i] = old[i]

\* C1: a register-user request that supplies a password and a username no
\* User row holds succeeds and inserts the row (role "user" when none was
\* given); rows stay as inserted, and a login with the username and password
\* of a row succeeds and returns that row's id, username and role.
C1_RegisterThenLogin ==
    [][ /\ ( /\ Handled("register_user")
             /\ Given(request.data.username)
             /\ Given(request.data.password)
             /\ \A i \in 1..Len(users) : users[i].username # request.data.username )
           => /\ response' = Json(200, [message |-> "User registered successfully"])
              /\ users' = Append(users,
                    [id |-> Len(users) + 1,
                     username |-> request.data.username,
                     password |-> request.data.password,
                     role |-> IF request.data.role.kind = "str"
                              THEN request.data.role ELSE Str("user")])
        /\ KeptRows(users, users')
        /\ Handled("login_user")
           => \A i \in 1..Len(users) :
                ( /\ users[i].username = request.data.username
                  /\ users[i].password = request.data.password )
                => response' = Json(200, [message |-> "Login successful",
                                          user |-> [id |-> i,
                                                    username |-> users[i].username,
                                                    role |-> users[i].role]])
      ]_vars

\* C1 witness: a login answered with the data of a user registered without
\* a role
C1_Witness ==
    /\ request.route = "login_user"
    /\ response.status = 200
    /\ response.body.user.role = Str("user")
    /\ registered[response.body.user.username.str] = 1

\* C2: once a registration of username u has succeeded, every register-user
\* request for u with any password is answered 400 "Username already exists"
\* and leaves the User table as it was.
C2_DuplicateUsername ==
    [][ ( /\ Handled("register_user")
          /\ Given(request.data.username)
          /\ Given(request.data.password)
          /\ registered[request.data.username.str] > 0 )
        => /\ response' = JsonError(400, "Username already exists")
           /\ users' = users
      ]_vars

\* C2 witness: a duplicate registration with another password was refused
C2_Witness ==
    /\ request.route = "register_user"
    /\ response = JsonError(400, "Username already exists")
    /\ \E i \in 1..Len(users) :
         /\ users[i].username = request.data.username
         /\ users[i].password # request.data.password

\* C3: a login succeeds only if a User row holds exactly the submitted
\* username and password, and then returns that row; a login with the
\* username of a row and another password is answered 400 "Invalid
\* credentials" with no user data; a login changes no table.
C3_LoginExactMatch ==
    [][ Handled("login_user")
        => /\ tables' = tables
           /\ response'.status = 200
              => \E i \in 1..Len(users) :
                   /\ users[i].username = request.data.username
                   /\ users[i].password = request.data.password
                   /\ response'.body.user = [id |-> users[i].id,
                                             username |-> users[i].username,
                                             role |-> users[i].role]
           /\ ( /\ \E i \in 1..Len(users) :
                     users[i].username = request.data.username
                /\ \A i \in 1..Len(users) :
                     users[i].username = request.data.username
                     => users[i].password # request.data.password )
              => response' = JsonError(400, "Invalid credentials")
      ]_vars

\* C3 witness: a login with the username of a row and a wrong, non-empty
\* password was refused
C3_Witness ==
    /\ request.route = "login_user"
    /\ response = JsonError(400, "Invalid credentials")
    /\ Given(request.data.password)
    /\ \E i \in 1..Len(users) : users[i].username = request.data.username

\* the date strings of the model that are ISO-8601 dates
IsoDateStrings ==
    {<<"2", "0", "2", "4", "-", "0", "5", "-", "0", "1">>,
     <<"2", "0", "2", "4", "-", "0", "5", "-", "0", "1", "T",
       "1", "0", ":", "3", "0", ":", "0", "0">>}

\* C4 as stated: a create-event request whose date is present and not a
\* parsable ISO-8601 string is answered 400 "Invalid date format" and
\* changes no table.
C4_PresentUnparsableDate ==
    [][ ( /\ Handled("create_event")
          /\ request.data.date.kind = "str"
          /\ request.data.date.chars \notin IsoDateStrings )
        => /\ response' = JsonError(400, "Invalid date format")
           /\ tables' = tables
      ]_vars

\* C4 amended: a create-event request whose date is a non-empty string that
\* is not a parsable ISO-8601 string is answered 400 "Invalid date format"
\* and changes no table, whatever its other fields; an empty date string is
\* handled as an absent date is.
C4_NonEmptyUnparsableDate ==
    [][ Handled("create_event")
        => /\ ( /\ request.data.date.kind = "str"
                /\ request.data.date.chars # <<>>
                /\ request.data.date.chars \notin IsoDateStrings )
              => /\ response' = JsonError(400, "Invalid date format")
                 /\ tables' = tables
           /\ ( /\ request.data.date.kind = "str"
                /\ request.data.date.chars = <<>> )
              => /\ response' # JsonError(400, "Invalid date format")
                 /\ \A i \in 1..Len(events') :
                      i > Len(events) => events'[i].date = NoDate
      ]_vars

\* C4 witness: a request with a title, an organizer and a malformed date was
\* refused
C4_Witness ==
    /\ request.route = "create_event"
    /\ response = JsonError(400, "Invalid date format")
    /\ request.data.date.chars # <<>>
    /\ request.data.title = Str("Conf")
    /\ request.data.organizer_id = Num(1)

\* C5: a process-payment request in which user_id, event_id, amount or
\* payment_method is missing or falsy is answered 400 "Missing payment
\* details" and adds no Payment row; any other request adds exactly one
\* Payment row and answers paymentStatus "successful".
C5_PaymentValidation ==
    [][ Handled("process_payment")
        => IF \/ Missing(request.data.user_id)
              \/ Missing(request.data.event_id)
              \/ Missing(request.data.amount)
              \/ Missing(request.data.payment_method)
           THEN /\ response' = JsonError(400, "Missing payment details")
                /\ payments' = payments
           ELSE /\ Len(payments') = Len(payments) + 1
                /\ KeptRows(payments, payments')
                /\ payments'[Len(payments')].user_id = request.data.user_id
                /\ payments'[Len(payments')].event_id = request.data.event_id
                /\ payments'[Len(payments')].amount = request.data.amount
                /\ payments'[Len(payments')].payment_method = request.data.payment_method
                /\ response'.status = 200
                /\ response'.body.paymentStatus = Str("successful")
      ]_vars

\* C5 witness: a payment with amount 0 was refused while a Payment row of an
\* earlier, complete request is stored
C5_Witness ==
    /\ request.route = "process_payment"
    /\ response = JsonError(400, "Missing payment details")
    /\ request.data.amount = Num(0)
    /\ Truthy(request.data.payment_method)
    /\ Len(payments) > 0

\* C6: get-event answers with the detail of the Event row of the id when one
\* was created and with 404 otherwise; an Event row is added only by a
\* create-event request answered "Event created successfully", with the next
\* id, and no row is ever changed or removed.
C6_GetEvent ==
    [][ /\ Handled("get_event")
           => IF request.data.event_id \in 1..Len(events)
              THEN LET event == events[request.data.event_id]
                   IN  response' =
                         Json(200, [id |-> request.data.event_id,
                                    title |-> event.title,
                                    description |-> event.description,
                                    date |-> DateJson(event.date),
                                    location |-> event.location,
                                    price |-> event.price,
                                    organizer_id |-> event.organizer_id])
              ELSE response' = NotFound
        /\ KeptRows(events, events')
        /\ events' # events
           => /\ Handled("create_event")
              /\ response' = Json(200, [message |-> "Event created successfully"])
              /\ Len(events') = Len(events) + 1
              /\ events'[Len(events')].id = Len(events')
      ]_vars

\* C6 witness: the second event created was fetched, with its date
C6_Witness ==
    /\ request.route = "get_event"
    /\ response.status = 200
    /\ response.body.id = 2
    /\ response.body.date.kind = "str"
    /\ response.body.date.chars[11] = "T"

\* C7 as stated: a create-event request without title or organizer_id, with
\* an absent or valid date, succeeds and stores an Event row with null in
\* their place.
C7_NullTitlePersists ==
    [][ ( /\ Handled("create_event")
          /\ \/ request.data.title.kind = "absent"
             \/ request.data.organizer_id.kind = "absent"
          /\ \/ request.data.date.kind = "absent"
             \/ request.data.date.chars \in IsoDateStrings )
        => /\ response' = Json(200, [message |-> "Event created successfully"])
           /\ Len(events') = Len(events) + 1
           /\ events'[Len(events')].title = Get(request.data, "title")
           /\ events'[Len(events')].organizer_id = Get(request.data, "organizer_id")
      ]_vars

\* C7 amended: such a request is not answered with a 400 error, but its
\* INSERT violates NOT NULL of Event.title or Event.organizer_id: the
\* request ends in the unhandled IntegrityError and stores no Event row.
C7_NullTitleRejectedByTable ==
    [][ ( /\ Handled("create_event")
          /\ \/ request.data.title.kind = "absent"
             \/ request.data.organizer_id.kind = "absent"
          /\ \/ request.data.date.kind = "absent"
             \/ request.data.date.chars \in IsoDateStrings )
        => /\ response' = ServerError("IntegrityError")
           /\ tables' = tables
      ]_vars

\* C7 witness: a request with an organizer, a valid date and no title ended
\* in IntegrityError
C7_Witness ==
    /\ request.route = "create_event"
    /\ response = ServerError("IntegrityError")
    /\ request.data.title.kind = "absent"
    /\ request.data.organizer_id = Num(1)
    /\ request.data.date.kind = "str"

\* C8: every Payment row has status "successful", and no step changes or
\* removes a Payment row.
C8_PaymentStatus ==
    [][ /\ KeptRows(payments, payments')
        /\ \A i \in 1..Len(payments') : payments'[i].status = Str("successful")
      ]_vars

\* C8 witness: two Payment rows are stored and another request was answered
C8_Witness ==
    /\ Len(payments) = 2
    /\ request.route \notin {"none", "process_payment"}
    /\ response # NoResponse

\* C9: a register-to-event request with truthy attendee_id and event_id
\* succeeds and adds exactly one Registration row (type "general" when the
\* request has none), whatever rows exist; a request with either id missing
\* or falsy is answered 400 "Missing attendee_id or event_id" and adds none.
C9_RegisterToEvent ==
    [][ Handled("register_to_event")
        => IF Missing(request.data.attendee_id) \/ Missing(request.data.event_id)
           THEN /\ response' = JsonError(400, "Missing attendee_id or event_id")
                /\ registrations' = registrations
           ELSE /\ response' = Json(200, [message |-> "Registration successful"])
                /\ registrations' = Append(registrations,
                      [id |-> Len(registrations) + 1,
                       attendee_id |-> request.data.attendee_id,
                       event_id |-> request.data.event_id,
                       registration_type |->
                          IF request.data.registration_type.kind = "absent"
                          THEN Str("general")
                          ELSE request.data.registration_type])
      ]_vars

\* C9 witness: a third registration of the same attendee for the same event
\* succeeded
C9_Witness ==
    /\ request.route = "register_to_event"
    /\ response.status = 200
    /\ Len(registrations) = 3
    /\ \A i \in 1..3 : /\ registrations[i].attendee_id = Num(1)
                       /\ registrations[i].event_id = Num(1)
    /\ registrations[3].registration_type = Str("general")

\* C10: with the existence check and the commit of concurrent register-user
\* requests interleaved in any order, no two User rows have the same
\* username and at most one request per username is answered "User
\* registered successfully".
C10_UniqueUsernames ==
    /\ \A i, j \in 1..Len(users) :
         i # j => users[i].username # users[j].username
    /\ \A u \in Usernames : registered[u] <= 1

\* C10 witness: two requests for one username both passed the check; one was
\* answered with success and the other ended in IntegrityError
C10_Witness ==
    /\ thread["t1"].response = Json(200, [message |-> "User registered successfully"])
    /\ thread["t2"].response = ServerError("IntegrityError")
    /\ Len(users) = 1

====
